---- MODULE Spec2Model ----
(***************************************************************************)
(* Model of the notebook                                                   *)
(*   distillation/knowledge-distillation-with-nn-rankgauss-pytorch.ipynb   *)
(* (k-fold training of a student network with a distillation loss, rank    *)
(* normalisation of the features, fold-averaged inference).                *)
(*                                                                         *)
(* Abstractions.  Network parameters are identified by the snapshot        *)
(* <<call, fold, trained>>: the model built in fold `fold` of train_model  *)
(* call `call` after `trained` completed training epochs.  An average      *)
(* validation loss is a finite number 0..MaxLoss chosen by the environment *)
(* (it depends on data and on random initialisation); float('inf') is the  *)
(* value Inf, above every loss.  Rows of X, y and teacher_preds carry the  *)
(* index of the CSV row they come from.                                    *)
(*                                                                         *)
(* params['n_splits'] = 5 and params['epochs'] = 100 are replaced by every *)
(* value up to MaxSplits and MaxEpochs, the data set by 2..MaxRows rows.   *)
(*                                                                         *)
(* A notebook kernel survives a cell that raises.  Whether the cells after *)
(* it still run depends on how the notebook is executed (Run All and       *)
(* nbconvert stop at the first error; cell-by-cell execution and           *)
(* nbconvert --allow-errors go on); allow_errors covers both.              *)
(*                                                                         *)
(* Specifications: SpecNotebook runs the cells in order; SpecTrain calls   *)
(* train_model once on aligned arrays; SpecScaler calls                    *)
(* GaussRankScaler.fit_transform on a matrix; SpecLoss calls               *)
(* knowledge_distillation_loss on a batch.                                 *)
(***************************************************************************)
EXTENDS Integers, Sequences, FiniteSets, TLC

\* ------------------------------------------------------------------ bounds
MaxSplits == 3
MaxRows   == 3
MaxEpochs == 2
MaxLoss   == 1
MaxCols   == 2
MaxVal    == 2
MaxBatch  == 2

Inf    == MaxLoss + 1
NoFile == <<>>
NoCall == [raised |-> "", value |-> <<>>]
None   == 0 - 1
NotReturned == [inf |-> FALSE, sum |-> 0, n |-> 0]
TeacherNone == <<>>

VARIABLES
  n_splits,        \* train_model argument
  epochs,          \* train_model argument
  X,               \* feature rows (provenance: CSV row index)
  y,               \* labels (provenance)
  teacher_preds,   \* teacher predictions (provenance)
  indices,         \* KFold: the shuffled row indices
  fold,            \* loop variable of line 158
  train_idx, val_idx,
  X_train, y_train, X_val, y_val,
  models,          \* heap: model object built in fold f -> trained epochs
  optims,          \* heap: optimizer object built in fold f -> steps taken
  model,           \* the object the name `model` is bound to
  best_val_loss,
  epoch,
  avg_val_loss,
  val_hist,        \* history: avg_val_loss of every epoch of this fold
  fold_scores,
  files,           \* working directory: checkpoint name -> content
  ret,             \* value returned by train_model
  call,            \* which train_model call is running (0: none yet)
  split_hist,      \* history: <<train_idx, val_idx>> of every fold so far
  tpc,             \* position inside train_model
  \* ---- the notebook (kernel and working directory)
  cell,            \* the cell to run next
  allow_errors,    \* execution mode: keep running the cells after an error
  bound,           \* names bound in the kernel's global namespace
  errors,          \* <<cell, exception>> of every cell that raised
  divider,         \* scaler.divider (numerator j_range; None: not set)
  X_form,          \* what the global X holds: "raw" or "rankgauss"
  X_test_form,     \* what the global X_test holds
  scores,          \* exp1_score .. exp4_score
  pfold,           \* loop variable of the inference and cleanup loops
  test_preds,      \* per fold: the parameters the fold's predictions used
  submission,      \* submission.csv
  \* ---- GaussRankScaler.fit_transform called on a matrix
  sc_X,            \* the argument, rows of columns
  sc_j,            \* the ranks j
  sc_out,          \* the outcome of the call
  \* ---- knowledge_distillation_loss called on a batch
  kd_y_true,       \* rows <<label, teacher probability>>
  kd_y_pred,       \* rows <<student output 0, student output 1>>
  kd_beta,         \* the beta argument in tenths (None: not given)
  kd_out           \* the returned loss

trainVars == <<n_splits, epochs, X, y, teacher_preds, indices, fold,
               train_idx, val_idx, X_train, y_train, X_val, y_val,
               models, optims, model, best_val_loss, epoch, avg_val_loss,
               val_hist, fold_scores, files, ret, call, split_hist, tpc>>

nbVars == <<cell, allow_errors, bound, errors, divider, X_form, X_test_form,
            scores, pfold, test_preds, submission>>

scVars == <<sc_X, sc_j, sc_out>>

kdVars == <<kd_y_true, kd_y_pred, kd_beta, kd_out>>

vars == <<trainVars, nbVars, scVars, kdVars>>

\* --------------------------------------------------------------- helpers
RECURSIVE SumSeq(_)
SumSeq(s) == IF s = <<>> THEN 0 ELSE Head(s) + SumSeq(Tail(s))

MinSeq(s) == CHOOSE m \in {s[i] : i \in 1..Len(s)} :
               \A i \in 1..Len(s) : m <= s[i]

Range(s) == {s[i] : i \in 1..Len(s)}

\* ascending array of the members of a set of integers
SortedSeq(S) ==
  CHOOSE s \in [1..Cardinality(S) -> S] :
    \A i, j \in 1..Cardinality(S) : i < j => s[i] < s[j]

Permutations0(n) ==
  {p \in [1..n -> 0..(n-1)] : \A i, j \in 1..n : i # j => p[i] # p[j]}

\* numpy fancy indexing a[idx] with a 0-based index array
Take(a, idx) == [p \in 1..Len(idx) |-> a[idx[p] + 1]]

\* np.column_stack([a, b])
ColumnStack(a, b) == [p \in 1..Len(a) |-> <<a[p], b[p]>>]

\* ----------------------------------------------------------------- KFold
\* sklearn KFold._iter_test_indices: the first n % k folds have one more row
FoldSizeFloor(n, k, f) == n \div k
FoldSize(n, k, f) == (n \div k) + (IF f < n % k THEN 1 ELSE 0)

RECURSIVE FoldStartPos(_, _, _)
FoldStartPos(n, k, f) ==
  IF f = 0 THEN 0 ELSE FoldStartPos(n, k, f - 1) + FoldSize(n, k, f - 1)

\* rows of fold f's test mask
ValSet(f) ==
  {indices[i] : i \in (FoldStartPos(Len(indices), n_splits, f) + 1) ..
                      (FoldStartPos(Len(indices), n_splits, f)
                         + FoldSize(Len(indices), n_splits, f))}

\* split(): test_index = indices[test_mask], train_index = indices[~test_mask]
ValIdx(f)   == SortedSeq(ValSet(f))
TrainIdx(f) == SortedSeq((0..(Len(indices) - 1)) \ ValSet(f))

\* ------------------------------------------------------------ train_model
\* f'best_model_fold_{fold}.pt'
CkptSharedName(f) == 0
CkptFile(f) == f

\* the y[...] / teacher_preds[...] index arrays of lines 163-164
TargetIdxSwapped(tr, va) == va
TargetIdx(tr, va) == tr

\* line 201: avg_val_loss < best_val_loss
ImprovedOrEqual(a, b) == a <= b
Improved(a, b) == a < b

\* line 208: the value a fold contributes
FoldScoreLast(best, last) == last
FoldScore(best, last) == best

\* np.mean(fold_scores): inf if any member is inf
Mean(s) ==
  IF \E i \in 1..Len(s) : s[i] = Inf
  THEN [inf |-> TRUE, sum |-> 0, n |-> Len(s)]
  ELSE [inf |-> FALSE, sum |-> SumSeq(s), n |-> Len(s)]

Snapshot(c, f, e) == <<c, f, e>>

\* lines 153-158 up to the first next() of kfold.split(X): KFold shuffles
TrainEntry(c) ==
  /\ tpc = "idle"
  /\ call' = c
  /\ fold_scores' = <<>>
  /\ \E p \in Permutations0(Len(X)) : indices' = p
  /\ fold' = 0
  /\ ret' = NotReturned
  /\ split_hist' = <<>>
  /\ tpc' = "fold_start"
  /\ UNCHANGED <<n_splits, epochs, X, y, teacher_preds, train_idx, val_idx,
                 X_train, y_train, X_val, y_val, models, optims, model,
                 best_val_loss, epoch, avg_val_loss, val_hist, files>>

\* lines 158-163 when teacher_preds is None: None[train_idx] raises TypeError
FoldStartRaises ==
  /\ tpc = "fold_start"
  /\ fold < n_splits
  /\ teacher_preds = TeacherNone
  /\ train_idx' = TrainIdx(fold)
  /\ val_idx' = ValIdx(fold)
  /\ X_train' = Take(X, train_idx')
  /\ X_val' = Take(X, val_idx')
  /\ split_hist' = Append(split_hist, <<train_idx', val_idx'>>)
  /\ tpc' = "raised"
  /\ UNCHANGED <<n_splits, epochs, X, y, teacher_preds, indices, fold,
                 y_train, y_val, models, optims, model, best_val_loss, epoch,
                 avg_val_loss, val_hist, fold_scores, files, ret, call>>

\* lines 158-177: split, data sets, fresh model and optimizer, best = inf
FoldStart ==
  /\ tpc = "fold_start"
  /\ fold < n_splits
  /\ teacher_preds # TeacherNone
  /\ train_idx' = TrainIdx(fold)
  /\ val_idx' = ValIdx(fold)
  /\ X_train' = Take(X, train_idx')
  /\ X_val' = Take(X, val_idx')
  /\ y_train' = ColumnStack(Take(y, TargetIdx(train_idx', val_idx')),
                            Take(teacher_preds, TargetIdx(train_idx', val_idx')))
  /\ y_val' = ColumnStack(Take(y, TargetIdx(val_idx', train_idx')),
                          Take(teacher_preds, TargetIdx(val_idx', train_idx')))
  /\ model' = fold
  /\ models' = [models EXCEPT ![fold] = 0]
  /\ optims' = [optims EXCEPT ![fold] = 0]
  /\ best_val_loss' = Inf
  /\ epoch' = 0
  /\ val_hist' = <<>>
  /\ avg_val_loss' = None
  /\ split_hist' = Append(split_hist, <<train_idx', val_idx'>>)
  /\ tpc' = "epoch_train"
  /\ UNCHANGED <<n_splits, epochs, X, y, teacher_preds, indices, fold,
                 fold_scores, files, ret, call>>

\* lines 178-188: one pass over the training batches
TrainEpoch ==
  /\ tpc = "epoch_train"
  /\ epoch < epochs
  /\ models' = [models EXCEPT ![model] = @ + 1]
  /\ optims' = [optims EXCEPT ![model] = @ + 1]
  /\ tpc' = "epoch_val"
  /\ UNCHANGED <<n_splits, epochs, X, y, teacher_preds, indices, fold,
                 train_idx, val_idx, X_train, y_train, X_val, y_val, model,
                 best_val_loss, epoch, avg_val_loss, val_hist, fold_scores,
                 files, ret, call, split_hist>>

\* lines 191-206: validation pass, best-loss bookkeeping, checkpoint
Validate ==
  /\ tpc = "epoch_val"
  /\ \E l \in 0..MaxLoss :
       /\ avg_val_loss' = l
       /\ val_hist' = Append(val_hist, l)
       /\ IF Improved(l, best_val_loss)
          THEN /\ best_val_loss' = l
               /\ files' = [files EXCEPT ![CkptFile(fold)] =
                              Snapshot(call, fold, models[model])]
          ELSE UNCHANGED <<best_val_loss, files>>
  /\ epoch' = epoch + 1
  /\ tpc' = "epoch_train"
  /\ UNCHANGED <<n_splits, epochs, X, y, teacher_preds, indices, fold,
                 train_idx, val_idx, X_train, y_train, X_val, y_val, models,
                 optims, model, fold_scores, ret, call, split_hist>>

\* line 208, and the next iteration of line 158
FoldEnd ==
  /\ tpc = "epoch_train"
  /\ epoch = epochs
  /\ fold_scores' = Append(fold_scores,
                           FoldScore(best_val_loss,
                                     IF val_hist = <<>> THEN Inf
                                     ELSE val_hist[Len(val_hist)]))
  /\ fold' = fold + 1
  /\ tpc' = "fold_start"
  /\ UNCHANGED <<n_splits, epochs, X, y, teacher_preds, indices,
                 train_idx, val_idx, X_train, y_train, X_val, y_val, models,
                 optims, model, best_val_loss, epoch, avg_val_loss, val_hist,
                 files, ret, call, split_hist>>

\* line 210: the mean is returned and the locals of the call are gone
TrainReturn ==
  /\ tpc = "fold_start"
  /\ fold = n_splits
  /\ ret' = Mean(fold_scores)
  /\ tpc' = "returned"
  /\ indices' = <<>>
  /\ fold' = 0
  /\ train_idx' = <<>> /\ val_idx' = <<>>
  /\ X_train' = <<>> /\ y_train' = <<>> /\ X_val' = <<>> /\ y_val' = <<>>
  /\ models' = [f \in 0..(MaxSplits - 1) |-> None]
  /\ optims' = [f \in 0..(MaxSplits - 1) |-> None]
  /\ model' = None
  /\ best_val_loss' = None
  /\ epoch' = 0
  /\ avg_val_loss' = None
  /\ val_hist' = <<>>
  /\ fold_scores' = <<>>
  /\ split_hist' = <<>>
  /\ UNCHANGED <<n_splits, epochs, X, y, teacher_preds, files, call>>

\* -------------------------------------------- train_model called directly
RowTags(n) == [i \in 1..n |-> i - 1]

TrainIdle ==
  /\ indices = <<>>
  /\ fold = 0
  /\ train_idx = <<>> /\ val_idx = <<>>
  /\ X_train = <<>> /\ y_train = <<>> /\ X_val = <<>> /\ y_val = <<>>
  /\ models = [f \in 0..(MaxSplits - 1) |-> None]
  /\ optims = [f \in 0..(MaxSplits - 1) |-> None]
  /\ model = None
  /\ best_val_loss = None
  /\ epoch = 0
  /\ avg_val_loss = None
  /\ val_hist = <<>>
  /\ fold_scores = <<>>
  /\ files = [f \in 0..(MaxSplits - 1) |-> NoFile]
  /\ ret = NotReturned
  /\ call = 0
  /\ split_hist = <<>>
  /\ tpc = "idle"

NotebookIdle ==
  /\ allow_errors = FALSE
  /\ bound = {}
  /\ errors = <<>>
  /\ divider = None
  /\ X_form = "raw" /\ X_test_form = "raw"
  /\ scores = [e \in 1..4 |-> NotReturned]
  /\ pfold = 0
  /\ test_preds = <<>>
  /\ submission = NoFile

ScalerIdle == sc_X = <<>> /\ sc_j = <<>> /\ sc_out = NoCall

LossIdle == kd_y_true = <<>> /\ kd_y_pred = <<>> /\ kd_beta = None /\ kd_out = NoCall

InitTrain ==
  /\ n_splits \in 2..MaxSplits
  /\ epochs \in 0..MaxEpochs
  /\ \E n \in n_splits..MaxRows :
       /\ X = RowTags(n)
       /\ y = RowTags(n)
       /\ teacher_preds \in {RowTags(n), TeacherNone}
  /\ TrainIdle
  /\ cell = "harness"
  /\ NotebookIdle
  /\ ScalerIdle
  /\ LossIdle

TrainStep ==
  \/ FoldStartRaises
  \/ FoldStart
  \/ TrainEpoch
  \/ Validate
  \/ FoldEnd
  \/ TrainReturn

Others == UNCHANGED <<nbVars, scVars, kdVars>>

NextTrain ==
  \/ TrainEntry(2) /\ Others
  \/ FoldStartRaises /\ Others
  \/ FoldStart /\ Others
  \/ TrainEpoch /\ Others
  \/ Validate /\ Others
  \/ FoldEnd /\ Others
  \/ TrainReturn /\ Others

SpecTrain == InitTrain /\ [][NextTrain]_vars

\* ---------------------------------------------------------- the notebook
\* names bound by the import cell (lines 26-39)
Imports == {"torch", "nn", "optim", "Dataset", "DataLoader", "np", "pd",
            "KFold", "StandardScaler", "QuantileTransformer", "plt", "tqdm",
            "gc", "os", "warnings"}

\* names bound by the cells that only define classes and functions
Definitions == {"StudentModel", "focal_loss", "knowledge_distillation_loss",
                "CustomDataset", "train_model", "GaussRankScaler"}

\* methods of class GaussRankScaler (lines 228-249)
ScalerMethods == {"__init__", "fit_transform"}

\* parameters of train_model (line 153)
TrainModelParams == {"X", "y", "teacher_preds", "n_splits", "epochs",
                     "batch_size"}

\* keyword arguments of the train_model call of experiment e
ExpKwargs(e) ==
  CASE e = 1 -> {"n_splits", "epochs", "batch_size", "criterion"}
    [] e = 2 -> {"n_splits", "epochs", "batch_size"}
    [] e = 3 -> {"n_splits", "epochs", "batch_size", "criterion"}
    [] e = 4 -> {"n_splits", "epochs", "batch_size", "criterion"}

\* Python binds a call's keyword arguments to the function's parameters
CallAccepts(kwargs) == kwargs \subseteq TrainModelParams

\* line 247: the global name scipy must be bound for scipy.special.erfinv
ErfinvResolves(names) == "scipy" \in names

ExpCell(e) == CASE e = 1 -> "exp1" [] e = 2 -> "exp2"
                [] e = 3 -> "exp3" [] e = 4 -> "exp4"
AfterExp(e) == CASE e = 1 -> "exp2" [] e = 2 -> "exp3"
                 [] e = 3 -> "exp4" [] e = 4 -> "predict"

\* a cell raises: the kernel keeps its state; the run goes on with the next
\* cell only when errors are allowed
Raise(c, exc, next) ==
  /\ errors' = Append(errors, <<c, exc>>)
  /\ cell' = IF allow_errors THEN next ELSE "aborted"

\* lines 26-39
ImportsCell ==
  /\ cell = "imports"
  /\ bound' = bound \cup Imports
  /\ cell' = "definitions"
  /\ UNCHANGED <<allow_errors, errors, divider, X_form, X_test_form, scores,
                 pfold, test_preds, submission>>
  /\ UNCHANGED <<trainVars, scVars, kdVars>>

\* lines 57-70, 88-108, 126-135, 153-210, 228-249
DefinitionCells ==
  /\ cell = "definitions"
  /\ bound' = bound \cup Definitions
  /\ cell' = "data"
  /\ UNCHANGED <<allow_errors, errors, divider, X_form, X_test_form, scores,
                 pfold, test_preds, submission>>
  /\ UNCHANGED <<trainVars, scVars, kdVars>>

DataNames == {"train", "test", "lgb_train", "add_features", "feature_cols",
              "X", "y", "X_test", "teacher_preds", "scaler"}

\* lines 259-287: load, add features, X = scaler.fit_transform(X),
\* X_test = scaler.transform(X_test)
DataCell ==
  /\ cell = "data"
  /\ bound' = bound \cup DataNames
  /\ divider' = Len(X) - 1
  /\ IF ~ErfinvResolves(bound)
     THEN /\ Raise("data", "NameError", "exp1")
          /\ UNCHANGED <<X_form, X_test_form>>
     ELSE /\ X_form' = "rankgauss"
          /\ IF "transform" \notin ScalerMethods
             THEN /\ Raise("data", "AttributeError", "exp1")
                  /\ UNCHANGED X_test_form
             ELSE /\ X_test_form' = "rankgauss"
                  /\ cell' = "exp1"
                  /\ UNCHANGED errors
  /\ UNCHANGED <<allow_errors, scores, pfold, test_preds, submission>>
  /\ UNCHANGED <<trainVars, scVars, kdVars>>

ExpNames(e) == IF e = 1 THEN {"params", "train_simple_nn"} ELSE {}

\* lines 305-323, 342-348, 367-373, 392-398: the call of train_model
ExpCall(e) ==
  /\ cell = ExpCell(e)
  /\ tpc \in {"idle", "returned", "raised"}
  /\ bound' = bound \cup ExpNames(e)
  /\ IF CallAccepts(ExpKwargs(e))
     THEN /\ TrainEntry(e)
          /\ UNCHANGED <<cell, errors>>
     ELSE /\ Raise(ExpCell(e), "TypeError", AfterExp(e))
          /\ UNCHANGED trainVars
  /\ UNCHANGED <<allow_errors, divider, X_form, X_test_form, scores, pfold,
                 test_preds, submission>>
  /\ UNCHANGED <<scVars, kdVars>>

\* train_model returned: the score is bound and printed
ExpReturn(e) ==
  /\ cell = ExpCell(e)
  /\ call = e
  /\ tpc = "returned"
  /\ scores' = [scores EXCEPT ![e] = ret]
  /\ tpc' = "idle"
  /\ cell' = AfterExp(e)
  /\ UNCHANGED <<allow_errors, bound, errors, divider, X_form, X_test_form,
                 pfold, test_preds, submission>>
  /\ UNCHANGED <<n_splits, epochs, X, y, teacher_preds, indices, fold,
                 train_idx, val_idx, X_train, y_train, X_val, y_val, models,
                 optims, model, best_val_loss, epoch, avg_val_loss, val_hist,
                 fold_scores, files, ret, call, split_hist>>
  /\ UNCHANGED <<scVars, kdVars>>

\* lines 436-451: one iteration of the inference loop
PredictLoad ==
  /\ cell = "predict"
  /\ pfold < n_splits
  /\ IF files[CkptFile(pfold)] = NoFile
     THEN /\ Raise("predict", "FileNotFoundError", "done")
          /\ UNCHANGED <<pfold, test_preds>>
     ELSE /\ test_preds' = Append(test_preds, files[CkptFile(pfold)])
          /\ pfold' = pfold + 1
          /\ UNCHANGED <<cell, errors>>
  /\ UNCHANGED <<allow_errors, bound, divider, X_form, X_test_form, scores,
                 submission>>
  /\ UNCHANGED <<trainVars, scVars, kdVars>>

\* lines 454-462: average the folds' predictions, write submission.csv
WriteSubmission ==
  /\ cell = "predict"
  /\ pfold = n_splits
  /\ submission' = [preds |-> test_preds, features |-> X_test_form]
  /\ pfold' = 0
  /\ cell' = "cleanup"
  /\ UNCHANGED <<allow_errors, bound, errors, divider, X_form, X_test_form,
                 scores, test_preds>>
  /\ UNCHANGED <<trainVars, scVars, kdVars>>

\* line 465: range(params['n_splits'])
CleanupRangeShort(k) == 0..(k - 2)
CleanupRange(k) == 0..(k - 1)

\* lines 465-466: one iteration of the cleanup loop
Cleanup ==
  /\ cell = "cleanup"
  /\ pfold \in CleanupRange(n_splits)
  /\ IF files[CkptFile(pfold)] = NoFile
     THEN /\ Raise("cleanup", "FileNotFoundError", "done")
          /\ UNCHANGED <<pfold, files>>
     ELSE /\ files' = [files EXCEPT ![CkptFile(pfold)] = NoFile]
          /\ pfold' = pfold + 1
          /\ UNCHANGED <<cell, errors>>
  /\ UNCHANGED <<allow_errors, bound, divider, X_form, X_test_form, scores,
                 test_preds, submission>>
  /\ UNCHANGED <<n_splits, epochs, X, y, teacher_preds, indices, fold,
                 train_idx, val_idx, X_train, y_train, X_val, y_val, models,
                 optims, model, best_val_loss, epoch, avg_val_loss, val_hist,
                 fold_scores, ret, call, split_hist, tpc>>
  /\ UNCHANGED <<scVars, kdVars>>

\* line 467: the last cell is through
Finish ==
  /\ cell = "cleanup"
  /\ pfold \notin CleanupRange(n_splits)
  /\ cell' = "done"
  /\ UNCHANGED <<allow_errors, bound, errors, divider, X_form, X_test_form,
                 scores, pfold, test_preds, submission>>
  /\ UNCHANGED <<trainVars, scVars, kdVars>>

InitNotebook ==
  /\ n_splits \in 2..MaxSplits
  /\ epochs \in 1..MaxEpochs
  /\ \E n \in n_splits..MaxRows :
       /\ X = RowTags(n)
       /\ y = RowTags(n)
       /\ teacher_preds = RowTags(n)
  /\ TrainIdle
  /\ cell = "imports"
  /\ allow_errors \in BOOLEAN
  /\ bound = {}
  /\ errors = <<>>
  /\ divider = None
  /\ X_form = "raw" /\ X_test_form = "raw"
  /\ scores = [e \in 1..4 |-> NotReturned]
  /\ pfold = 0
  /\ test_preds = <<>>
  /\ submission = NoFile
  /\ ScalerIdle
  /\ LossIdle

NextNotebook ==
  \/ ImportsCell
  \/ DefinitionCells
  \/ DataCell
  \/ \E e \in 1..4 : ExpCall(e)
  \/ (cell \in {"exp1", "exp2", "exp3", "exp4"} /\ TrainStep /\ Others)
  \/ \E e \in 1..4 : ExpReturn(e)
  \/ PredictLoad
  \/ WriteSubmission
  \/ Cleanup
  \/ Finish

SpecNotebook == InitNotebook /\ [][NextNotebook]_vars

\* ------------------------------------------ GaussRankScaler.fit_transform
\* np.argsort(column): the row indices (0-based) in an order that sorts the
\* column; numpy's default sort is not stable, so equal values may come in
\* any order
ArgSorts(col) ==
  {i \in Permutations0(Len(col)) :
     \A a, b \in 1..Len(col) : a < b => col[i[a] + 1] <= col[i[b] + 1]}

\* np.argsort of a permutation: its inverse
ArgSortPerm(i) ==
  [r \in 1..Len(i) |-> (CHOOSE k \in 1..Len(i) : i[k] = r - 1) - 1]

Column(M, c) == [r \in 1..Len(M) |-> M[r][c]]

\* scipy.special.erfinv(j / divider - upper), in thousandths, for the ranks
\* 0..j_range of at most five rows (j_range = 0: 0/0 is nan, here NaNValue)
NaNValue == 0 - 99999
ErfinvMilli(j, j_range) ==
  CASE j_range = 0 -> NaNValue
    [] j = 0 -> 0 - 4320
    [] j = j_range -> 4320
    [] 2 * j = j_range -> 0
    [] j_range = 3 /\ j = 1 -> 0 - 305
    [] j_range = 3 /\ j = 2 -> 305
    [] j_range = 4 /\ j = 1 -> 0 - 477
    [] j_range = 4 /\ j = 3 -> 477

\* lines 235-249
FitTransformCall ==
  /\ sc_out = NoCall
  /\ sc_X # <<>>
  /\ \E i \in [1..Len(sc_X[1]) -> Permutations0(Len(sc_X))] :
       /\ \A c \in 1..Len(sc_X[1]) : i[c] \in ArgSorts(Column(sc_X, c))
       /\ sc_j' = [r \in 1..Len(sc_X) |->
                     [c \in 1..Len(sc_X[1]) |-> ArgSortPerm(i[c])[r]]]
  /\ divider' = Len(sc_X) - 1
  /\ IF ~ErfinvResolves(bound)
     THEN sc_out' = [raised |-> "NameError", value |-> <<>>]
     ELSE sc_out' = [raised |-> "",
                     value |-> [r \in 1..Len(sc_X) |->
                                 [c \in 1..Len(sc_X[1]) |->
                                   ErfinvMilli(sc_j'[r][c], divider')]]]
  /\ UNCHANGED sc_X
  /\ UNCHANGED <<cell, allow_errors, bound, errors, X_form, X_test_form,
                 scores, pfold, test_preds, submission>>
  /\ UNCHANGED <<trainVars, kdVars>>

\* the kernel after the import and definition cells; fit_transform is about
\* to be called on a matrix
InitScaler ==
  /\ n_splits = 2 /\ epochs = 1
  /\ X = <<>> /\ y = <<>> /\ teacher_preds = TeacherNone
  /\ TrainIdle
  /\ cell = "harness"
  /\ allow_errors = FALSE
  /\ bound = Imports \cup Definitions
  /\ errors = <<>>
  /\ divider = None
  /\ X_form = "raw" /\ X_test_form = "raw"
  /\ scores = [e \in 1..4 |-> NotReturned]
  /\ pfold = 0
  /\ test_preds = <<>>
  /\ submission = NoFile
  /\ \E n \in 1..MaxRows, c \in 1..MaxCols :
       sc_X \in [1..n -> [1..c -> 0..MaxVal]]
  /\ sc_j = <<>>
  /\ sc_out = NoCall
  /\ LossIdle

NextScaler == FitTransformCall

SpecScaler == InitScaler /\ [][NextScaler]_vars

\* --------------------------------------------- knowledge_distillation_loss
\* Probabilities are halves (0, 1/2, 1 as 0, 1, 2), logarithms hundredths.
\* A loss is the fraction <<numerator, denominator>>.

\* -log(clamp(p, 1e-7, 1 - 1e-7)), lines 90-91
NegLogClamped(p2) == CASE p2 = 0 -> 1612 [] p2 = 1 -> 69 [] p2 = 2 -> 0

\* (1 - clamp(p))^2 in quarters, line 92 with gamma = 2
FocalWeight4(p2) == CASE p2 = 0 -> 4 [] p2 = 1 -> 1 [] p2 = 2 -> 0

\* -max(log(p), -100): torch's BCELoss clamps the logarithm at -100
NegLogBCE(p2) == CASE p2 = 0 -> 10000 [] p2 = 1 -> 69 [] p2 = 2 -> 0

RECURSIVE GCD(_, _)
GCD(a, b) == IF b = 0 THEN a ELSE GCD(b, a % b)

\* the fraction n/d in lowest terms
Rat(n, d) == <<n \div GCD(n, d), d \div GCD(n, d)>>
RatAdd(a, b) == Rat(a[1] * b[2] + b[1] * a[2], a[2] * b[2])
RatMul(a, b) == Rat(a[1] * b[1], a[2] * b[2])

\* lines 88-93: mean(focal_weight * (-y_true * log(y_pred)))
focal_loss(y_true, y_pred) ==
  <<SumSeq([p \in 1..Len(y_true) |->
             FocalWeight4(y_pred[p]) * y_true[p] * NegLogClamped(y_pred[p])]),
    4 * Len(y_true)>>

\* nn.BCELoss()(input, target): mean(-(t log(x) + (1 - t) log(1 - x)))
BCELoss(input, target) ==
  <<SumSeq([p \in 1..Len(input) |->
             target[p] * NegLogBCE(input[p])
               + (2 - target[p]) * NegLogBCE(2 - input[p])]),
    2 * Len(input)>>

\* y[:, :1] and y[:, 1:] of a two-column array
FirstColumn(a) == [p \in 1..Len(a) |-> a[p][1]]
RestColumns(a) == [p \in 1..Len(a) |-> a[p][2]]

\* line 97
TrueLabelsFromTeacher(y_true) == RestColumns(y_true)
TrueLabels(y_true) == FirstColumn(y_true)

\* line 95: beta=0.1
DefaultBeta10 == 1

\* lines 95-108
knowledge_distillation_loss(y_true, y_pred, beta10) ==
  LET true_labels == TrueLabels(y_true)
      teacher == RestColumns(y_true)
      student_preds1 == FirstColumn(y_pred)
      student_preds2 == RestColumns(y_pred)
      fl_loss == focal_loss(true_labels, student_preds1)
      distill_loss == BCELoss(student_preds2, teacher)
  IN  RatAdd(RatMul(<<beta10, 10>>, fl_loss),
             RatMul(<<10 - beta10, 10>>, distill_loss))

\* one call of knowledge_distillation_loss
KDLossCall ==
  /\ kd_out = NoCall
  /\ kd_y_true # <<>>
  /\ kd_out' = [raised |-> "",
                value |-> knowledge_distillation_loss(
                            kd_y_true, kd_y_pred,
                            IF kd_beta = None THEN DefaultBeta10 ELSE kd_beta)]
  /\ UNCHANGED <<kd_y_true, kd_y_pred, kd_beta>>
  /\ UNCHANGED <<trainVars, nbVars, scVars>>

InitLoss ==
  /\ n_splits = 2 /\ epochs = 1
  /\ X = <<>> /\ y = <<>> /\ teacher_preds = TeacherNone
  /\ TrainIdle
  /\ cell = "harness"
  /\ NotebookIdle
  /\ ScalerIdle
  /\ \E b \in 1..MaxBatch :
       /\ kd_y_true \in [1..b -> (0..1) \X (0..2)]
       /\ kd_y_pred \in [1..b -> (0..2) \X (0..2)]
  /\ kd_beta \in {None, 5}
  /\ kd_out = NoCall

NextLoss == KDLossCall

SpecLoss == InitLoss /\ [][NextLoss]_vars

\* ================================================================ claims
\* between fold set-up and fold_scores.append
InFold == tpc \in {"epoch_train", "epoch_val"}
\* the row indices of X
AllRows == 0..(Len(X) - 1)

\* the loop of line 158 is through and line 210 is about to run
AllFoldsDone == tpc = "fold_start" /\ fold = n_splits

\* C2: the k validation index sets of one train_model call are pairwise
\* disjoint, their union is every row index 0..n-1 once all k folds have been
\* produced, and in each fold the training indices are exactly the rows that
\* are not in that fold's validation set.
C2_KFoldPartition ==
  /\ \A f, g \in 1..Len(split_hist) :
       f # g => Range(split_hist[f][2]) \cap Range(split_hist[g][2]) = {}
  /\ \A f \in 1..Len(split_hist) :
       /\ Range(split_hist[f][1]) = AllRows \ Range(split_hist[f][2])
       /\ Cardinality(Range(split_hist[f][1])) = Len(split_hist[f][1])
       /\ Cardinality(Range(split_hist[f][2])) = Len(split_hist[f][2])
  /\ AllFoldsDone =>
       /\ Len(split_hist) = n_splits
       /\ UNION {Range(split_hist[f][2]) : f \in 1..Len(split_hist)} = AllRows

C2_Witness ==
  /\ AllFoldsDone
  /\ Len(X) = 3
  /\ n_splits = 2
  /\ indices = <<2, 0, 1>>

\* the first position of the minimum of a sequence
FirstArgMin(s) == CHOOSE i \in 1..Len(s) :
                    /\ s[i] = MinSeq(s)
                    /\ \A j \in 1..(i - 1) : s[j] # MinSeq(s)

\* a step changes a checkpoint file exactly when it is the running fold's
\* validation step and its loss is below every earlier loss of the fold
C3_WrittenIffLower ==
  \A f \in DOMAIN files :
    (files'[f] # files[f])
      <=> /\ InFold
          /\ f = fold
          /\ val_hist' = Append(val_hist, avg_val_loss')
          /\ \A i \in 1..Len(val_hist) : avg_val_loss' < val_hist[i]

\* the state in which line 208 is about to run
C3_FoldEnd ==
  (tpc = "epoch_train" /\ epoch = epochs /\ epochs >= 1) =>
    /\ Len(val_hist) = epochs
    /\ best_val_loss = MinSeq(val_hist)
    /\ files[fold] = <<call, fold, FirstArgMin(val_hist)>>

\* C3: within a fold the checkpoint file of the fold is (over)written exactly
\* in the epochs whose average validation loss is strictly lower than that of
\* every earlier epoch of the fold; when the fold ends after at least one
\* epoch, best_val_loss is the minimum of the fold's epoch losses and the file
\* holds the parameters on which that minimum was computed.
C3_BestCheckpoint == [][C3_WrittenIffLower]_vars /\ []C3_FoldEnd

C3_Witness ==
  /\ tpc = "epoch_train" /\ epoch = epochs
  /\ val_hist = <<1, 0>>
  /\ files[fold] = <<call, fold, 2>>
  /\ fold = 1

\* the minimum of a fold's epoch losses; inf when the fold ran no epoch
MinOrInf(s) == IF s = <<>> THEN Inf ELSE MinSeq(s)

\* fold_scores only grows, at the end of a fold, by that fold's minimum
C4_OnePerFold ==
  (fold_scores' # fold_scores /\ tpc # "idle" /\ tpc' # "returned") =>
    /\ fold_scores' = Append(fold_scores, MinOrInf(val_hist))
    /\ fold' = fold + 1

\* the returned value is the mean of the k recorded values
C4_ReturnStep ==
  (tpc # "returned" /\ tpc' = "returned") =>
    /\ Len(fold_scores) = n_splits
    /\ ret'.n = n_splits
    /\ ret'.inf = (\E i \in 1..Len(fold_scores) : fold_scores[i] = Inf)
    /\ ~ret'.inf => ret'.sum = SumSeq(fold_scores)

\* C4: train_model returns the arithmetic mean over all k folds of each
\* fold's best (minimum over the fold's epochs) average validation loss, and
\* every fold contributes exactly one value.
C4_MeanOfBest == [][C4_OnePerFold /\ C4_ReturnStep]_vars

C4_Witness ==
  /\ tpc = "returned"
  /\ epochs = 2
  /\ n_splits = 2
  /\ files[0] = <<call, 0, 1>>
  /\ files[1] = <<call, 1, 2>>
  /\ ret = [inf |-> FALSE, sum |-> 1, n |-> 2]

\* C5: X, y and teacher_preds pair the same CSV row at every position before
\* the split, and in every fold position i of the training (validation)
\* target array holds the label and the teacher prediction of the row whose
\* features are at position i of the training (validation) feature array.
C5_RowAlignment ==
  /\ Len(X) = Len(y)
  /\ \A i \in 1..Len(X) : y[i] = X[i]
  /\ teacher_preds # TeacherNone =>
       /\ Len(X) = Len(teacher_preds)
       /\ \A i \in 1..Len(X) : teacher_preds[i] = X[i]
  /\ InFold =>
       /\ Len(y_train) = Len(X_train)
       /\ Len(y_val) = Len(X_val)
       /\ \A p \in 1..Len(X_train) : y_train[p] = <<X_train[p], X_train[p]>>
       /\ \A p \in 1..Len(X_val) : y_val[p] = <<X_val[p], X_val[p]>>
       /\ Range(X_train) \cup Range(X_val) = AllRows

C5_Witness ==
  /\ tpc = "epoch_val"
  /\ X_train = <<0, 2>>
  /\ y_train = <<<<0, 0>>, <<2, 2>>>>
  /\ y_val = <<<<1, 1>>>>

\* the folds other than the running one
OtherFolds == (0..(MaxSplits - 1)) \ {fold}

\* a step of the running fold leaves the other folds' objects, files and
\* recorded scores as they are
C9_Frame ==
  (InFold \/ (tpc = "fold_start" /\ tpc' = "epoch_train")) =>
    /\ \A g \in OtherFolds :
         /\ models'[g] = models[g]
         /\ optims'[g] = optims[g]
         /\ files'[g] = files[g]
    /\ Len(fold_scores') >= Len(fold_scores)
    /\ \A i \in 1..Len(fold_scores) : fold_scores'[i] = fold_scores[i]

\* fold set-up binds objects that did not exist before
C9_Fresh ==
  (tpc = "fold_start" /\ tpc' = "epoch_train") =>
    /\ models[model'] = None /\ models'[model'] = 0
    /\ optims[model'] = None /\ optims'[model'] = 0
    /\ best_val_loss' = Inf
    /\ val_hist' = <<>>

\* C9: every fold starts from a newly built model, a newly built optimizer
\* and best_val_loss = inf, and the steps of fold f change neither the model
\* parameters, the optimizer state, the recorded best loss nor the checkpoint
\* file of another fold of the same call.
C9_FoldsIndependent == [][C9_Frame /\ C9_Fresh]_vars

C9_Witness ==
  /\ fold = 1 /\ tpc = "epoch_train" /\ epoch = 2
  /\ models[0] = 2 /\ models[1] = 2
  /\ files[0] # NoFile /\ files[1] # NoFile
  /\ files[0] # files[1]

\* beta in tenths, the focal sum in quarters and the cross-entropy sum in
\* halves, written out from the formulas of the two losses
C8_Beta10 == IF kd_beta = None THEN 1 ELSE kd_beta

C8_FocalSum4 ==
  SumSeq([p \in 1..Len(kd_y_true) |->
            IF kd_y_true[p][1] = 1
            THEN FocalWeight4(kd_y_pred[p][1]) * NegLogClamped(kd_y_pred[p][1])
            ELSE 0])

C8_BceSum2 ==
  SumSeq([p \in 1..Len(kd_y_true) |->
            kd_y_true[p][2] * NegLogBCE(kd_y_pred[p][2])
              + (2 - kd_y_true[p][2]) * NegLogBCE(2 - kd_y_pred[p][2])])

\* C8: knowledge_distillation_loss returns beta times the focal loss of
\* student output 0 against column 0 of the target (the true label) plus
\* (1 - beta) times the binary cross-entropy of student output 1 against
\* column 1 of the target (the teacher probability), with beta = 0.1 when it
\* is not given.
C8_DistillationLoss ==
  kd_out # NoCall =>
    /\ kd_out.raised = ""
    /\ kd_out.value[2] # 0
    /\ 40 * Len(kd_y_true) * kd_out.value[1] =
         kd_out.value[2] * (C8_Beta10 * C8_FocalSum4
                              + 2 * (10 - C8_Beta10) * C8_BceSum2)

C8_Witness ==
  /\ kd_out # NoCall
  /\ kd_beta = None
  /\ kd_y_true = <<<<1, 1>>, <<0, 2>>>>
  /\ kd_y_pred = <<<<1, 2>>, <<2, 1>>>>
  /\ kd_out.value[1] > 0

\* the last cell is through, or the run stopped at a cell that raised
RunEnded == cell \in {"done", "aborted"}

\* C1: a run of the cells in order completes: X and X_test are normalised,
\* each of the four experiments returns a score, and the fold-averaged
\* predictions are written to submission.csv.
C1_RunCompletes ==
  RunEnded =>
    /\ cell = "done"
    /\ errors = <<>>
    /\ X_form = "rankgauss" /\ X_test_form = "rankgauss"
    /\ \A e \in 1..4 : scores[e] # NotReturned
    /\ submission # NoFile

\* a step that removes a checkpoint file finds it loaded and the submission
\* written
C6_DeletedAfterUse ==
  \A f \in DOMAIN files :
    (files[f] # NoFile /\ files'[f] = NoFile) =>
      /\ submission # NoFile
      /\ f + 1 <= Len(test_preds)
      /\ test_preds[f + 1] = files[f]

\* an ended run has left no checkpoint file
C6_NoneLeft ==
  RunEnded => \A f \in 0..(n_splits - 1) : files[f] = NoFile

\* C6: a checkpoint file is deleted only after inference has loaded it and
\* submission.csv has been written, and when the run has ended no checkpoint
\* file is left for any fold 0..n_splits-1.
C6_TransientCheckpoints == [][C6_DeletedAfterUse]_vars /\ []C6_NoneLeft

C6_Witness ==
  /\ cell = "done"
  /\ submission # NoFile
  /\ Len(test_preds) = n_splits
  /\ \A f \in 0..(n_splits - 1) : files[f] = NoFile

\* C7: fit_transform returns a matrix in which, for every column and every
\* two rows a and b, a smaller input in row a than in row b gives a smaller
\* output in row a than in row b.
C7_Monotonic ==
  sc_out # NoCall =>
    /\ sc_out.raised = ""
    /\ \A c \in 1..Len(sc_X[1]) : \A a, b \in 1..Len(sc_X) :
         sc_X[a][c] < sc_X[b][c] => sc_out.value[a][c] < sc_out.value[b][c]

\* C10: after the experiments have run in sequence, the checkpoint inference
\* loads for fold f was written by the last experiment (experiment 4), the
\* most recent train_model call; no earlier experiment's model is used for
\* the submission.
C10_LastExperimentLoaded ==
  \A f \in 1..Len(test_preds) :
    /\ test_preds[f][1] = 4
    /\ test_preds[f][2] = f - 1
====
